---- MODULE Spec2Model ----
(***************************************************************************)
(* Model of storage/clickhousespanstore/writer.go: the SpanWriter, its     *)
(* ingestion channel, the backgroundWriter loop with its three select      *)
(* cases (span, timer, finish), the WaitGroup used as a drain barrier and  *)
(* Close.  The worker pool is seen only through WriteBatch and Close.      *)
(***************************************************************************)
EXTENDS Integers, Sequences, FiniteSets, TLC

\* ---------------------------------------------------------------- bounds
MaxCap == 2      \* largest batch capacity (the `size` argument) explored
MaxDelay == 2    \* largest flush delay explored, in clock units
MaxTime == 2     \* the clock stops advancing here when it runs freely
MaxSpans == 2    \* number of WriteSpan calls explored

\* Under prompt scheduling the clock runs as far as two flush delays and one
\* more unit after a submission at instant 0.
PromptHorizon == 2 * MaxDelay + 1

Producers == {"p1", "p2"}
Closers == {"c1", "c2"}
Writers == {"w1", "w2", "w3", "w4"}
Counters == {"numWritesWithBatchSize", "numWritesWithFlushInterval"}

\* Close is to be called once: one caller does so in Spec and SpecPrompt.
OneCloser == {"c1"}

\* The incoming contexts explored: no metadata at all, metadata without an
\* x-tenant value, and metadata with two x-tenant values.
NoMetadata == [ok |-> FALSE, xtenant |-> << >>]
NoTenant == [ok |-> TRUE, xtenant |-> << >>]
Contexts == { NoMetadata,
              NoTenant,
              [ok |-> TRUE, xtenant |-> <<"t2", "t1">>] }

VARIABLES
    size,        \* w.size: batch capacity and channel capacity
    delay,       \* w.workerParams.delay
    now,         \* the clock read by time.Now / time.Since / time.After
    spans,       \* w.spans: the buffered channel's contents
    done,        \* w.done: the WaitGroup counter
    batch,       \* backgroundWriter's local batch
    timerAt,     \* the instant the armed timer channel becomes ready
    last,        \* backgroundWriter's local last
    pcS,         \* backgroundWriter's position
    ev,          \* the select case taken in the current iteration
    handed,      \* the batches passed to pool.WriteBatch, in order
    poolClosed,  \* pool.Close() has been called and has returned
    sizeCnt,     \* numWritesWithBatchSize
    timerCnt,    \* numWritesWithFlushInterval
    ppc,         \* each producer's position inside WriteSpan
    pitem,       \* the SpanAndTenant a producer is sending
    calls,       \* history: every WriteSpan call, its context and result
    enq,         \* history: every value sent on w.spans
    burst,       \* history: snapshot taken at the latest send that found the
                 \* channel and the batch both empty; cleared by a send
                 \* beyond `size` spans from there and by a Close call
    deq,         \* history: every value received from w.spans
    closer,      \* each Close caller's position
    closeSnap,   \* history: Len(enq) when a Close call was invoked
    handAt,      \* history: the clock at the latest pool.WriteBatch call, or
                 \* at the loop's start when there has been none
    survived,    \* history: timer cases taken without a flush while the
                 \* current batch was non-empty, counted up to two
    registerWriterMetrics,  \* the package's sync.Once
    registered,  \* times each counter was given to prometheus.MustRegister
    wpc          \* each NewSpanWriter call's position in registerMetrics

vars == << size, delay, now, spans, done, batch, timerAt, last, pcS, ev,
           handed, poolClosed, sizeCnt, timerCnt, ppc, pitem, calls, enq,
           burst, deq, closer, closeSnap, handAt, survived,
           registerWriterMetrics, registered, wpc >>

schedVars == << done, batch, timerAt, last, pcS, ev, handed, poolClosed,
                sizeCnt, timerCnt, deq >>
prodVars == << ppc, pitem, calls, enq >>
closeVars == << closer, closeSnap >>
cfgVars == << size, delay >>
tickVars == << handAt, survived >>
regVars == << registerWriterMetrics, registered, wpc >>

NoItem == [id |-> 0, tenant |-> ""]

NoBurst == [start |-> 0, at |-> 0, h0 |-> 0, s0 |-> 0, t0 |-> 0, late0 |-> FALSE]

\* ------------------------------------------------------- pure operators
RECURSIVE Flatten(_)
Flatten(bs) ==
    IF bs = << >> THEN << >> ELSE Head(bs).b \o Flatten(Tail(bs))

IsPrefix(s, t) == Len(s) <= Len(t) /\ SubSeq(t, 1, Len(s)) = s

Ids(s) == { s[i].id : i \in 1..Len(s) }

NoDup(s) == \A i, j \in 1..Len(s) : s[i].id = s[j].id => i = j

\* metadata.FromIncomingContext(ctx): the ok flag
FromIncomingContextDropsNothing(ctx) == TRUE
FromIncomingContext(ctx) == ctx.ok

\* md.Get("x-tenant") followed by the choice of the tenant label
TenantLast(ctx) ==
    IF Len(ctx.xtenant) = 0 THEN "" ELSE ctx.xtenant[Len(ctx.xtenant)]
Tenant(ctx) ==
    IF Len(ctx.xtenant) = 0 THEN "" ELSE ctx.xtenant[1]

\* make(chan SpanAndTenant, size)
ChanCapOneMore == size + 1
ChanCap == size

\* cap(batch) for make([]SpanAndTenant, 0, w.size)
BatchCap == size

\* flush = len(batch) == cap(batch)
SizeFlushBeyondCap(b) == Len(b) > BatchCap
SizeFlush(b) == Len(b) = BatchCap

\* timer := time.After(delay) before the loop
TimerFirst == now + delay

\* timer = time.After(delay) in the timer case; a timer that is not re-armed
\* never fires again
TimerNotRearmed == PromptHorizon + MaxTime + 1
TimerRearm == now + delay

\* flush = time.Since(last) > delay && len(batch) > 0
TimerFlushReversed(b) == last - now > delay /\ Len(b) > 0
TimerFlushAnyBatch(b) == now - last > delay
TimerFlushAtDelay(b) == now - last >= delay /\ Len(b) > 0
TimerFlush(b) == now - last > delay /\ Len(b) > 0

\* flush = len(batch) > 0
FinishFlushAlways(b) == TRUE
FinishFlush(b) == Len(b) > 0

\* batch = make([]SpanAndTenant, 0, w.size)
KeepBatch(b) == b
NewBatch(b) == << >>

\* w.done.Wait() returns when the counter is zero
WaitSkipped(d) == TRUE
WaitDone(d) == d = 0

\* numWritesWithBatchSize.Inc(), numWritesWithFlushInterval.Inc()
IncForgotten(n) == n
Inc(n) == n + 1

\* if finish { break }: where the loop goes after w.done.Done()
AfterIterationNoBreak(e) == "top"
AfterIteration(e) == IF e = "finish" THEN "exit" ELSE "top"

\* pool.WriteBatch(batch): the pool receives the batch
PoolWriteBatch(h, b, why) == Append(h, [b |-> b, why |-> why])

\* ------------------------------------------------------------------ Init
Init ==
    /\ size \in 1..MaxCap
    /\ delay \in 1..MaxDelay
    /\ now = 0
    /\ spans = << >>
    /\ done = 0
    /\ batch = << >>
    /\ timerAt = 0
    /\ last = 0
    /\ pcS = "start"
    /\ ev = "none"
    /\ handed = << >>
    /\ poolClosed = FALSE
    /\ sizeCnt = 0
    /\ timerCnt = 0
    /\ ppc = [p \in Producers |-> "idle"]
    /\ pitem = [p \in Producers |-> NoItem]
    /\ calls = << >>
    /\ enq = << >>
    /\ burst = NoBurst
    /\ deq = << >>
    /\ closer = [c \in Closers |-> "idle"]
    /\ closeSnap = [c \in Closers |-> 0]
    /\ handAt = 0
    /\ survived = 0
    /\ registerWriterMetrics = "fresh"
    /\ registered = [k \in Counters |-> 0]
    /\ wpc = [w \in Writers |-> "new"]

\* ----------------------------------------------------------------- clock
TickTo(limit) ==
    /\ now < limit
    /\ now' = now + 1
    /\ UNCHANGED << regVars, tickVars >>
    /\ UNCHANGED << cfgVars, spans, schedVars, prodVars, burst, closeVars >>

\* The clock advances at any moment.
Tick == TickTo(MaxTime)

\* ------------------------------------------------------------- WriteSpan
\* The bookkeeping of a completed send w.spans <- item.
Sent(item) ==
    /\ spans' = Append(spans, item)
    /\ enq' = Append(enq, item)
    /\ burst' = IF \E c \in Closers : closer[c] # "idle"
                THEN NoBurst
                ELSE IF spans = << >> /\ batch = << >>
                THEN [start |-> Len(enq) + 1, at |-> now, h0 |-> Len(handed),
                      s0 |-> sizeCnt, t0 |-> timerCnt,
                      late0 |-> (now - last > delay)]
                ELSE IF Len(enq) + 1 > burst.start + size - 1
                THEN NoBurst
                ELSE burst

\* WriteSpan: without metadata it returns nil at once; with metadata it sends
\* SpanAndTenant{span, tenant} and returns nil when the channel has room, and
\* otherwise blocks in the send.
WriteSpanCall(p, ctx) ==
    /\ ppc[p] = "idle"
    /\ Len(calls) < MaxSpans
    /\ LET item == [id |-> Len(calls) + 1, tenant |-> Tenant(ctx)] IN
       IF ~FromIncomingContext(ctx)
       THEN /\ calls' = Append(calls, [ctx |-> ctx, ret |-> "nil"])
            /\ UNCHANGED << spans, enq, burst, pitem, ppc >>
       ELSE IF Len(spans) < ChanCap
       THEN /\ calls' = Append(calls, [ctx |-> ctx, ret |-> "nil"])
            /\ Sent(item)
            /\ UNCHANGED << pitem, ppc >>
       ELSE /\ calls' = Append(calls, [ctx |-> ctx, ret |-> "pending"])
            /\ pitem' = [pitem EXCEPT ![p] = item]
            /\ ppc' = [ppc EXCEPT ![p] = "send"]
            /\ UNCHANGED << spans, enq, burst >>
    /\ UNCHANGED << regVars, tickVars >>
    /\ UNCHANGED << cfgVars, now, schedVars, closeVars >>

\* A send that was blocked completes once the channel has room; return nil.
WriteSpanSend(p) ==
    /\ ppc[p] = "send"
    /\ Len(spans) < ChanCap
    /\ Sent(pitem[p])
    /\ calls' = [calls EXCEPT ![pitem[p].id].ret = "nil"]
    /\ ppc' = [ppc EXCEPT ![p] = "idle"]
    /\ pitem' = [pitem EXCEPT ![p] = NoItem]
    /\ UNCHANGED << regVars, tickVars >>
    /\ UNCHANGED << cfgVars, now, schedVars, closeVars >>

\* The clock advances without bound: every stored instant is kept relative
\* to the current one, which stays at `now`, and an instant is not followed
\* further into the past than the comparisons made with it can tell.
Later(a, b) == IF a >= b THEN a ELSE b

TickShift ==
    /\ timerAt' = Later(timerAt - 1, now)
    /\ last' = Later(last - 1, now - delay - 1)
    /\ handAt' = Later(handAt - 1, now - delay - 1)
    /\ burst' = IF burst = NoBurst THEN burst
                ELSE [burst EXCEPT !.at = Later(@ - 1, now - 2 * delay - 1)]
    /\ UNCHANGED << cfgVars, regVars, now, spans, done, batch, pcS, ev, handed,
                    poolClosed, sizeCnt, timerCnt, deq, survived, prodVars,
                    closeVars >>

\* ------------------------------------------------------ backgroundWriter
\* pool, batch, timer := time.After(delay), last := time.Now()
Start ==
    /\ pcS = "start"
    /\ timerAt' = TimerFirst
    /\ last' = now
    /\ handAt' = now
    /\ pcS' = "top"
    /\ UNCHANGED << regVars, survived >>
    /\ UNCHANGED << cfgVars, now, spans, done, batch, ev, handed, poolClosed,
                    sizeCnt, timerCnt, deq, prodVars, burst, closeVars >>

\* w.done.Add(1) at the top of the loop, reached at instant t
LoopTopAt(t) ==
    /\ pcS = "top"
    /\ now' = t
    /\ done' = done + 1
    /\ ev' = "none"
    /\ pcS' = "select"
    /\ UNCHANGED << regVars, tickVars >>
    /\ UNCHANGED << cfgVars, spans, batch, timerAt, last, handed,
                    poolClosed, sizeCnt, timerCnt, deq, prodVars, burst, closeVars >>

LoopTop == LoopTopAt(now)

\* The same step when the clock has moved on since the iteration before
\* (ev still names that iteration's case; before the first it is "none")
LoopTopStrict ==
    IF ev = "none"
    THEN LoopTopAt(now)
    ELSE now < PromptHorizon /\ LoopTopAt(now + 1)

\* case span := <-w.spans
SelectSpan ==
    /\ pcS = "select"
    /\ spans # << >>
    /\ LET b == Append(batch, Head(spans)) IN
       /\ batch' = b
       /\ IF SizeFlush(b)
          THEN sizeCnt' = Inc(sizeCnt) /\ pcS' = "flush"
          ELSE sizeCnt' = sizeCnt /\ pcS' = "done"
    /\ spans' = Tail(spans)
    /\ deq' = Append(deq, Head(spans))
    /\ ev' = "span"
    /\ UNCHANGED << regVars, tickVars >>
    /\ UNCHANGED << cfgVars, now, done, timerAt, last, handed, poolClosed,
                    timerCnt, prodVars, burst, closeVars >>

\* case <-timer
SelectTimer ==
    /\ pcS = "select"
    /\ now >= timerAt
    /\ timerAt' = TimerRearm
    /\ IF TimerFlush(batch)
       THEN timerCnt' = Inc(timerCnt) /\ pcS' = "flush"
       ELSE timerCnt' = timerCnt /\ pcS' = "done"
    /\ ev' = "timer"
    /\ survived' = IF Len(batch) > 0 /\ ~TimerFlush(batch) /\ survived < 2
                   THEN survived + 1 ELSE survived
    /\ UNCHANGED << regVars, handAt >>
    /\ UNCHANGED << cfgVars, now, spans, done, batch, last, handed,
                    poolClosed, sizeCnt, deq, prodVars, burst, closeVars >>

\* case <-w.finish: the rendezvous with one Close caller's send
SelectFinish(c) ==
    /\ pcS = "select"
    /\ closer[c] = "send"
    /\ closer' = [closer EXCEPT ![c] = "wait"]
    /\ ev' = "finish"
    /\ pcS' = IF FinishFlush(batch) THEN "flush" ELSE "close"
    /\ UNCHANGED << regVars, tickVars >>
    /\ UNCHANGED << cfgVars, now, spans, done, batch, timerAt, last, handed,
                    poolClosed, sizeCnt, timerCnt, deq, prodVars, burst, closeSnap >>

\* if flush { pool.WriteBatch(batch); batch = make(...); last = time.Now() }
FlushBatch ==
    /\ pcS = "flush"
    /\ handed' = PoolWriteBatch(handed, batch, ev)
    /\ batch' = NewBatch(batch)
    /\ last' = now
    /\ pcS' = IF ev = "finish" THEN "close" ELSE "done"
    /\ handAt' = now
    /\ survived' = 0
    /\ UNCHANGED regVars
    /\ UNCHANGED << cfgVars, now, spans, done, timerAt, ev, poolClosed,
                    sizeCnt, timerCnt, deq, prodVars, burst, closeVars >>

\* if finish { pool.Close() }
ClosePool ==
    /\ pcS = "close"
    /\ poolClosed' = TRUE
    /\ pcS' = "done"
    /\ UNCHANGED << regVars, tickVars >>
    /\ UNCHANGED << cfgVars, now, spans, done, batch, timerAt, last, ev,
                    handed, sizeCnt, timerCnt, deq, prodVars, burst, closeVars >>

\* w.done.Done(); if finish { break }
IterDone ==
    /\ pcS = "done"
    /\ done' = done - 1
    /\ pcS' = AfterIteration(ev)
    /\ UNCHANGED << regVars, tickVars >>
    /\ UNCHANGED << cfgVars, now, spans, batch, timerAt, last, ev, handed,
                    poolClosed, sizeCnt, timerCnt, deq, prodVars, burst, closeVars >>

\* ----------------------------------------------------------------- Close
\* Close is invoked and reaches w.finish <- true
Close(c) ==
    /\ closer[c] = "idle"
    /\ closer' = [closer EXCEPT ![c] = "send"]
    /\ closeSnap' = [closeSnap EXCEPT ![c] = Len(enq)]
    /\ burst' = NoBurst
    /\ UNCHANGED << regVars, tickVars >>
    /\ UNCHANGED << cfgVars, now, spans, schedVars, prodVars >>

\* w.done.Wait(); return nil
CloseReturn(c) ==
    /\ closer[c] = "wait"
    /\ WaitDone(done)
    /\ closer' = [closer EXCEPT ![c] = "returned"]
    /\ UNCHANGED << regVars, tickVars >>
    /\ UNCHANGED << cfgVars, now, spans, schedVars, prodVars, burst, closeSnap >>

\* ------------------------------------------------------------------ Next
\* ------------------------------------------------------ registerMetrics
\* sync.Once.Do runs its function only for the caller that finds the Once
\* unused; a caller that arrives while the function runs waits for it
OnceUnlocked(o) == o # "done"
OnceFree(o) == o = "fresh"

OnceDone(o) == o = "done"

\* NewSpanWriter calls writer.registerMetrics(): registerWriterMetrics.Do
RegisterMetricsDo(w) ==
    /\ wpc[w] = "new"
    /\ IF OnceDone(registerWriterMetrics)
       THEN /\ wpc' = [wpc EXCEPT ![w] = "registered"]
            /\ UNCHANGED registerWriterMetrics
       ELSE /\ OnceFree(registerWriterMetrics)
            /\ registerWriterMetrics' = "running"
            /\ wpc' = [wpc EXCEPT ![w] = "first"]
    /\ UNCHANGED << cfgVars, tickVars, now, spans, schedVars, prodVars, burst,
                    closeVars, registered >>

\* prometheus.MustRegister(numWritesWithBatchSize)
MustRegisterBatchSize(w) ==
    /\ wpc[w] = "first"
    /\ registered' = [registered EXCEPT !["numWritesWithBatchSize"] = @ + 1]
    /\ wpc' = [wpc EXCEPT ![w] = "second"]
    /\ UNCHANGED << cfgVars, tickVars, now, spans, schedVars, prodVars, burst,
                    closeVars, registerWriterMetrics >>

\* prometheus.MustRegister(numWritesWithFlushInterval); Do returns
MustRegisterFlushInterval(w) ==
    /\ wpc[w] = "second"
    /\ registered' = [registered EXCEPT !["numWritesWithFlushInterval"] = @ + 1]
    /\ registerWriterMetrics' = "done"
    /\ wpc' = [wpc EXCEPT ![w] = "registered"]
    /\ UNCHANGED << cfgVars, tickVars, now, spans, schedVars, prodVars, burst,
                    closeVars >>

\* go writer.backgroundWriter(maxSpanCount); return writer
NewSpanWriterReturn(w) ==
    /\ wpc[w] = "registered"
    /\ wpc' = [wpc EXCEPT ![w] = "built"]
    /\ UNCHANGED << cfgVars, tickVars, now, spans, schedVars, prodVars, burst,
                    closeVars, registerWriterMetrics, registered >>

Iteration ==
    \/ SelectSpan
    \/ SelectTimer
    \/ \E c \in Closers : SelectFinish(c)
    \/ FlushBatch
    \/ ClosePool
    \/ IterDone

Scheduler == Start \/ LoopTop \/ Iteration

Work ==
    \/ \E p \in Producers, ctx \in Contexts : WriteSpanCall(p, ctx)
    \/ \E p \in Producers : WriteSpanSend(p)
    \/ Scheduler
    \/ \E c \in Closers : CloseReturn(c)

Step == Work \/ \E c \in OneCloser : Close(c)

Next == Tick \/ Step

Spec == Init /\ [][Next]_vars

\* Prompt scheduling: the backgroundWriter goroutine runs whenever it can, so
\* the clock advances only while it is blocked in its select (or has exited).
SchedulerReady ==
    \/ pcS \in {"start", "top", "flush", "close", "done"}
    \/ /\ pcS = "select"
       /\ \/ spans # << >>
          \/ now >= timerAt
          \/ \E c \in Closers : closer[c] = "send"

TickPrompt == ~SchedulerReady /\ TickTo(PromptHorizon)

NextPrompt == TickPrompt \/ Step

SpecPrompt == Init /\ [][NextPrompt]_vars

\* Misuse: Close is called by two callers, one after the other or both at
\* once.
WithMetadata == { ctx \in Contexts : FromIncomingContext(ctx) }

NextTwoClose ==
    \/ Tick
    \/ \E ctx \in WithMetadata : WriteSpanCall("p1", ctx)
    \/ WriteSpanSend("p1")
    \/ Scheduler
    \/ \E c \in Closers : Close(c)
    \/ \E c \in Closers : CloseReturn(c)

SpecTwoClose == Init /\ [][NextTwoClose]_vars

\* Close is never called, time passes for ever, every step of the loop is
\* eventually taken and the select does not neglect a case that is ready
\* again and again.
NextLive ==
    \/ TickShift
    \/ \E p \in Producers : WriteSpanCall(p, NoTenant)
    \/ \E p \in Producers : WriteSpanSend(p)
    \/ Start
    \/ LoopTop
    \/ SelectSpan
    \/ SelectTimer
    \/ FlushBatch
    \/ IterDone

SpecLive ==
    /\ Init
    /\ [][NextLive]_vars
    /\ WF_vars(TickShift)
    /\ WF_vars(Start)
    /\ WF_vars(LoopTop)
    /\ WF_vars(FlushBatch)
    /\ WF_vars(IterDone)
    /\ SF_vars(SelectSpan)
    /\ SF_vars(SelectTimer)

\* The clock strictly advances from one iteration of the loop to the next.
NextStrict ==
    \/ TickTo(PromptHorizon)
    \/ \E p \in Producers : WriteSpanCall(p, NoTenant)
    \/ \E p \in Producers : WriteSpanSend(p)
    \/ Start
    \/ LoopTopStrict
    \/ Iteration
    \/ \E c \in OneCloser : Close(c)
    \/ \E c \in Closers : CloseReturn(c)

SpecStrict == Init /\ [][NextStrict]_vars

\* Several SpanWriter instances are constructed in the process, in any
\* interleaving; only their use of the package-level Once and counters is
\* followed.
NextRegister ==
    \/ \E w \in Writers : RegisterMetricsDo(w)
    \/ \E w \in Writers : MustRegisterBatchSize(w)
    \/ \E w \in Writers : MustRegisterFlushInterval(w)
    \/ \E w \in Writers : NewSpanWriterReturn(w)

SpecRegister == Init /\ [][NextRegister]_vars

\* ---------------------------------------------------------------- claims
HandedItems == Flatten(handed)

Whys == { handed[i].why : i \in 1..Len(handed) }

AnyClose == \E c \in Closers : closer[c] # "idle"

\* C1: every batch passed to pool.WriteBatch holds at least one span and at
\* most `size` spans, whichever of the three select cases caused the flush.
C1_BatchLength ==
    \A i \in 1..Len(handed) :
        Len(handed[i].b) >= 1 /\ Len(handed[i].b) <= size

C1_Witness ==
    /\ Len(handed) = 2
    /\ "timer" \in Whys
    /\ "finish" \in Whys

\* C2: once Close has returned, every span whose WriteSpan had returned when
\* Close was invoked is in a batch passed to the pool; and when exactly one
\* span was sent and no size or timer flush fired, the pool received exactly
\* one batch, that span alone, flushed by the finish case.
C2_CloseDrains ==
    \A c \in Closers :
        closer[c] = "returned" =>
            /\ \A i \in 1..closeSnap[c] : enq[i].id \in Ids(HandedItems)
            /\ (closeSnap[c] = 1 /\ Len(enq) = 1 /\ sizeCnt = 0 /\ timerCnt = 0)
                   => handed = << [b |-> << enq[1] >>, why |-> "finish"] >>

\* C3: the WaitGroup counter is 1 whenever the loop is in its select and for
\* the whole iteration that received the finish signal, and a Close call has
\* returned only when that iteration has finished: nothing is left in the
\* batch, every received span has been passed to the pool, pool.Close() has
\* returned and the loop has exited.
C3_CloseAfterDrain ==
    /\ pcS = "select" => done = 1
    /\ (ev = "finish" /\ pcS \in {"flush", "close", "done"}) => done = 1
    /\ \A c \in Closers :
           closer[c] = "returned" =>
               /\ pcS = "exit"
               /\ poolClosed
               /\ batch = << >>
               /\ HandedItems = deq

C3_Witness ==
    /\ \E c \in Closers : closer[c] = "returned"
    /\ "finish" \in Whys

\* C4: a WriteSpan call without incoming metadata returns nil in the same
\* step, leaves the channel, the batch and every producer untouched, and its
\* span is never in the channel, the batch or a handed-off batch; no WriteSpan
\* call ever returns anything but nil.
C4_Dropped ==
    /\ [](\A i \in 1..Len(calls) :
            /\ calls[i].ret \in {"pending", "nil"}
            /\ ~calls[i].ctx.ok =>
                  /\ calls[i].ret = "nil"
                  /\ i \notin (Ids(enq) \cup Ids(spans) \cup Ids(batch)
                                 \cup Ids(HandedItems))
                  /\ \A p \in Producers : pitem[p].id # i)
    /\ [][(Len(calls') = Len(calls) + 1 /\ ~calls'[Len(calls')].ctx.ok)
            => /\ calls'[Len(calls')].ret = "nil"
               /\ UNCHANGED << spans, batch, enq, ppc, pitem >>]_vars

C4_Witness ==
    /\ Len(calls) = 2
    /\ ~calls[1].ctx.ok
    /\ calls[2].ctx.ok
    /\ Ids(HandedItems) = {2}

\* C5: the handed-off batches, concatenated in hand-off order, are a prefix
\* of the spans received from the channel, which with the channel's contents
\* are the spans sent, in sending order; no span is in two places of the
\* concatenation; and the list of handed-off batches only grows at its end.
C5_Order ==
    /\ [](/\ IsPrefix(HandedItems, deq)
          /\ deq \o spans = enq
          /\ NoDup(enq)
          /\ NoDup(HandedItems))
    /\ [][IsPrefix(handed, handed')]_vars

C5_Witness ==
    /\ Len(handed) = 2
    /\ Len(HandedItems) = 2
    /\ HandedItems = enq

\* C6: the channel never holds more than `size` spans; a producer that finds
\* it full stays in its send with its span, its call not returned; and a
\* producer leaves the send only by appending its span to a channel that had
\* room, returning nil.
C6_Backpressure ==
    /\ [](Len(spans) <= size)
    /\ [][\A p \in Producers :
            ppc[p] = "send" =>
              \/ /\ ppc'[p] = "send"
                 /\ pitem'[p] = pitem[p]
                 /\ calls'[pitem[p].id].ret = "pending"
              \/ /\ Len(spans) < size
                 /\ spans' = Append(spans, pitem[p])
                 /\ calls'[pitem[p].id].ret = "nil"
                 /\ ppc'[p] = "idle"]_vars

C6_Witness ==
    \E p, q \in Producers :
        /\ ppc[p] = "send"
        /\ Len(spans) = size
        /\ pitem[p].id = 2
        /\ spans[1].id = 1
        /\ ppc[q] = "idle"

\* The latest send that found the channel and the batch empty was the first
\* of exactly `size` sends so far, no time has passed since it, Close has not
\* been invoked, and the loop has received all of them and is back in its
\* select.
BurstHandled ==
    /\ burst.start > 0
    /\ Len(enq) = burst.start + size - 1
    /\ now = burst.at
    /\ ~AnyClose
    /\ spans = << >>
    /\ pcS = "select"

\* That burst caused exactly one flush: by size, of exactly its spans in the
\* order sent, counted by the size counter and not by the timer counter.
BurstOneSizeFlush ==
    /\ Len(handed) = burst.h0 + 1
    /\ handed[Len(handed)] =
           [b |-> SubSeq(enq, burst.start, Len(enq)), why |-> "span"]
    /\ sizeCnt = burst.s0 + 1
    /\ timerCnt = burst.t0

\* C7 as stated: `size` spans submitted back-to-back, with no delay, to a
\* writer in any state with an empty channel and an empty batch cause exactly
\* one flush, by size, of those spans in order.
C7_AnyState == BurstHandled => BurstOneSizeFlush

\* C7 amended: the same, when at the submission of the first span no more
\* than the flush delay had elapsed since lastFlushTime.
C7_WithinDelay ==
    (BurstHandled /\ ~burst.late0) => BurstOneSizeFlush

C7_Witness ==
    /\ BurstHandled
    /\ ~burst.late0
    /\ size = 2
    /\ burst.at > 0
    /\ BurstOneSizeFlush

\* The latest send found the channel and the batch empty, nothing has been
\* sent since, the capacity exceeds one and Close has not been invoked.
SingleSpan ==
    /\ burst.start > 0
    /\ Len(enq) = burst.start
    /\ size > 1
    /\ ~AnyClose

\* That span caused exactly one flush: by the timer, of that span alone.
SingleTimerFlush ==
    /\ Len(handed) = burst.h0 + 1
    /\ handed[Len(handed)] = [b |-> << enq[burst.start] >>, why |-> "timer"]
    /\ timerCnt = burst.t0 + 1
    /\ sizeCnt = burst.s0

\* C8 as stated: once more than 1.2 times the flush delay has elapsed since
\* the submission of a single span, exactly one batch has been handed off,
\* that span alone, by the timer.
C8_After12 ==
    (SingleSpan /\ 5 * (now - burst.at) > 6 * delay) => SingleTimerFlush

\* C8 amended: the same once more than twice the flush delay has elapsed,
\* the loop handling every event as soon as it is ready.
C8_AfterTwoDelays ==
    (SingleSpan /\ now - burst.at > 2 * delay) => SingleTimerFlush

C8_Witness ==
    /\ SingleSpan
    /\ now - burst.at > 2 * delay
    /\ delay = 2
    /\ SingleTimerFlush

\* C9: the timer case taken with an empty batch re-arms the timer and goes
\* on to the end of the iteration without flushing: nothing is handed off
\* and the batch, lastFlushTime and both counters keep their values; the
\* loop never flushes an empty batch for a tick; and as long as no span has
\* been sent, nothing has been handed off.
C9_EmptyTick ==
    /\ [][(pcS = "select" /\ ev' = "timer" /\ batch = << >>)
            => /\ pcS' = "done"
               /\ timerAt' = now + delay
               /\ UNCHANGED << handed, batch, last, sizeCnt, timerCnt >>]_vars
    /\ [][pcS = "done"
            => UNCHANGED << handed, batch, last, sizeCnt, timerCnt >>]_vars
    /\ []((ev = "timer" /\ pcS = "flush") => batch # << >>)
    /\ [](enq = << >> => handed = << >>)

C9_Witness ==
    /\ ev = "timer"
    /\ pcS = "done"
    /\ batch = << >>
    /\ now - last > delay
    /\ enq = << >>
    /\ handed = << >>

\* C10: every span in the channel, in the batch or in a handed-off batch
\* carries the first x-tenant value of the context its WriteSpan call was
\* given, or the empty string when that context had metadata without an
\* x-tenant value.
C10_TenantKept ==
    \A it \in { (spans \o batch \o HandedItems)[i] :
                    i \in 1..Len(spans \o batch \o HandedItems) } :
        LET xt == calls[it.id].ctx.xtenant IN
        /\ calls[it.id].ctx.ok
        /\ xt = << >> => it.tenant = ""
        /\ xt # << >> => it.tenant = xt[1]

C10_Witness ==
    \E i, j \in 1..Len(HandedItems) :
        /\ HandedItems[i].tenant = ""
        /\ HandedItems[j].tenant = "t2"

Passed == { c \in Closers : closer[c] \in {"wait", "returned"} }

\* C11: of the Close calls on one writer at most one gets its signal
\* received, and once one has, every other call, whether already blocked in
\* its send or invoked later, stays in its send for ever: it never returns.
C11_SecondCloseHangs ==
    /\ [](Cardinality(Passed) <= 1)
    /\ [][\A d \in Closers :
            (Passed # {} /\ d \notin Passed)
                => closer'[d] \in {"idle", "send"}]_vars
    /\ [][\A d \in Closers :
            (pcS = "exit" /\ closer[d] = "send") => closer'[d] = "send"]_vars

C11_Witness ==
    /\ closer["c1"] = "returned"
    /\ closer["c2"] = "send"
    /\ closeSnap["c2"] > closeSnap["c1"]
    /\ pcS = "exit"

Built == { w \in Writers : wpc[w] \in {"registered", "built"} }

\* C12: however many writers are constructed, and however their
\* constructions interleave, neither counter is given to MustRegister twice,
\* and once any NewSpanWriter call is past registerMetrics (a writer
\* exists) both counters have been registered exactly once.
C12_RegisteredOnce ==
    /\ \A k \in Counters : registered[k] <= 1
    /\ Built # {} => \A k \in Counters : registered[k] = 1

C12_Witness ==
    /\ Cardinality(Built) >= 2
    /\ \E w \in Writers : wpc[w] = "new"
    /\ \A k \in Counters : registered[k] = 1

HandedBy(why) == Cardinality({ i \in 1..Len(handed) : handed[i].why = why })

IterationBoundary == pcS \in {"top", "select", "exit"}

\* C13: neither counter ever decreases; between iterations the size counter
\* is the number of size-triggered hand-offs and the timer counter the number
\* of timer-triggered ones, there is at most one shutdown hand-off and it is
\* counted by neither, so hand-offs = size counter + timer counter + (0 or 1);
\* every hand-off leaves the batch empty and lastFlushTime at the clock.
C13_FlushAccounting ==
    /\ [][sizeCnt' >= sizeCnt /\ timerCnt' >= timerCnt]_vars
    /\ [](IterationBoundary =>
            /\ sizeCnt = HandedBy("span")
            /\ timerCnt = HandedBy("timer")
            /\ HandedBy("finish") <= 1
            /\ Len(handed) = sizeCnt + timerCnt + HandedBy("finish"))
    /\ [][handed' # handed =>
            /\ Len(handed') = Len(handed) + 1
            /\ batch' = << >>
            /\ last' = now']_vars
    /\ [][(ev' = "finish" /\ ev # "finish")
            => sizeCnt' = sizeCnt /\ timerCnt' = timerCnt]_vars
    /\ [](ev = "finish" =>
            sizeCnt + timerCnt = Len(handed) - HandedBy("finish"))

C13_Witness ==
    /\ pcS = "exit"
    /\ timerCnt = 1
    /\ HandedBy("finish") = 1
    /\ Len(handed) = 2

\* C14: when the timer case is taken the loop goes on to flush exactly if
\* more than the delay has passed since the latest hand-off of any kind (the
\* loop's start if there was none) and the batch is non-empty; lastFlushTime
\* is that instant; so a timer-triggered hand-off is always more than one
\* delay after the hand-off before it.
C14_TimerFlushRule ==
    /\ [](pcS # "start" => last = handAt)
    /\ [][(pcS = "select" /\ ev' = "timer") =>
            ((pcS' = "flush") <=> (now - handAt > delay /\ Len(batch) > 0))]_vars
    /\ [][(handed' # handed /\ ev = "timer") => now - handAt > delay]_vars

C14_Witness ==
    /\ Len(handed) = 2
    /\ handed[1].why = "timer"
    /\ handed[2].why = "timer"
    /\ survived = 0
    /\ now - handAt <= delay

\* C15: after the loop has received the shutdown signal it hands off at most
\* one more batch, the non-empty current batch, then calls pool.Close() once
\* and leaves the loop; nothing is handed to the pool after pool.Close(), and
\* after the loop has ended it receives nothing, handles no tick and flushes
\* nothing.
C15_ShutdownProtocol ==
    /\ [][(Passed # {} /\ handed' # handed) =>
            /\ ev = "finish"
            /\ Len(batch) > 0
            /\ HandedBy("finish") = 0
            /\ handed' = Append(handed, [b |-> batch, why |-> "finish"])]_vars
    /\ [][(ev' = "finish" /\ ev # "finish") =>
            pcS' = IF Len(batch) > 0 THEN "flush" ELSE "close"]_vars
    /\ [](pcS = "close" => ev = "finish" /\ ~poolClosed)
    /\ []((ev = "finish" /\ pcS \in {"done", "exit"}) => poolClosed)
    /\ [][poolClosed => (poolClosed' /\ handed' = handed)]_vars
    /\ [][poolClosed' # poolClosed => pcS = "close"]_vars
    /\ [][pcS = "exit" => (UNCHANGED schedVars /\ IsPrefix(spans, spans'))]_vars

C15_Witness ==
    /\ pcS = "exit"
    /\ poolClosed
    /\ HandedBy("finish") = 1
    /\ spans # << >>
    /\ now >= timerAt

\* C16: with Close never called, the loop does not stay at its select for
\* ever, and every span sent on the queue is eventually part of a batch
\* handed to the pool.
C16_EventuallyHanded ==
    /\ (pcS = "select") ~> (pcS # "select")
    /\ \A i \in 1..MaxSpans :
          (i \in Ids(enq)) ~> (i \in Ids(HandedItems))

C16_Witness ==
    /\ Len(enq) = MaxSpans
    /\ Ids(enq) = Ids(HandedItems)
    /\ HandedBy("timer") = 2
    /\ pcS = "select"
    /\ now < timerAt

\* C17: when the clock strictly advances from one iteration to the next, a
\* non-empty batch is kept through at most one timer case: the next timer
\* case taken hands it off, unless a size or shutdown flush did so before.
C17_BoundedResidency == survived <= 1

C17_Witness ==
    /\ survived = 1
    /\ pcS = "flush"
    /\ ev = "timer"

ReturnedWithMetadata ==
    { i \in 1..Len(calls) :
        FromIncomingContext(calls[i].ctx) /\ calls[i].ret = "nil" }

\* C18: from the moment the loop receives the shutdown signal nothing is
\* received from the queue any more: a span that is in the queue then, or is
\* sent later, stays there and is never handed to the pool although its
\* WriteSpan returned nil; after the loop has ended the queue takes at most
\* C spans in all, and a WriteSpan that finds it full never returns.
C18_NothingConsumes ==
    /\ [](enq = deq \o spans /\ Len(spans) <= size)
    /\ [](ReturnedWithMetadata = Ids(enq))
    /\ [](Ids(HandedItems) \subseteq Ids(deq))
    /\ [][Passed # {} => (deq' = deq /\ IsPrefix(spans, spans'))]_vars
    /\ [](Passed # {} => Ids(spans) \cap Ids(HandedItems) = {})
    /\ [][(pcS = "exit" /\ Len(spans) = size) =>
            /\ enq' = enq
            /\ \A p \in Producers : ppc[p] = "send" => ppc'[p] = "send"
            /\ \A i \in 1..Len(calls) : calls'[i] = calls[i]]_vars

C18_Witness ==
    /\ pcS = "exit"
    /\ closer["c1"] = "returned"
    /\ Len(spans) = size
    /\ \E i \in ReturnedWithMetadata : i \in Ids(spans) /\ i > closeSnap["c1"]
    /\ \E p \in Producers : ppc[p] = "send"
    /\ handed = << >>

\* C19: whenever the loop is at its select the batch holds fewer than C
\* spans; a batch handed off after the timer or the finish case holds fewer
\* than C spans, and a handed-off batch holds exactly C spans exactly if it
\* was handed off after the span case.
C19_NeverFullAtSelect ==
    /\ pcS \in {"top", "select"} => Len(batch) \in 0..(size - 1)
    /\ \A i \in 1..Len(handed) :
          /\ handed[i].why \in {"timer", "finish"} => Len(handed[i].b) < size
          /\ Len(handed[i].b) = size <=> handed[i].why = "span"

C19_Witness ==
    /\ size = 2
    /\ pcS = "select"
    /\ Len(handed) = 1
    /\ handed[1].why = "span"
    /\ Len(handed[1].b) = 2
    /\ batch = << >>

C19_WitnessShort ==
    /\ size = 2
    /\ pcS = "select"
    /\ Len(batch) = 1
    /\ Len(handed) = 1
    /\ handed[1].why = "timer"

====
